---- MODULE Spec2Model ----
(***************************************************************************)
(* hpoon: the persistent mark store of src/main.go.                        *)
(*                                                                         *)
(* Go strings are modelled as sequences of byte values (0..255).  The      *)
(* store file is a byte sequence, or absent.  The codec (base64 with the   *)
(* standard alphabet and padding, strings.Split, bufio.Scanner's line      *)
(* splitting) is computed byte for byte.                                   *)
(***************************************************************************)
EXTENDS Integers, Sequences, FiniteSets, TLC

VARIABLES store, cur, named, fs, rd, codec, procs

vars == <<store, cur, named, fs, rd, codec, procs>>

(***************************************************************************)
(* Bytes used by the program text and by the inputs of the model.          *)
(***************************************************************************)
LF == 10
CR == 13
BANG == 33
PLUS == 43
DOT == 46
SLASH == 47
COLON == 58
SPACE == 32
PAD == 61
UNDERSCORE == 95

LAST_MARKED_KEY == <<UNDERSCORE>>
KV_SEPERATOR == <<SLASH>>
NAME_REF == <<BANG>>

(* bufio.MaxScanTokenSize, the buffer limit of the bufio.NewScanner used   *)
(* by read_hpoon_file.                                                      *)
MaxScanTokenSize == 65536

(***************************************************************************)
(* encoding/base64, StdEncoding: alphabet A-Z a-z 0-9 + / with '=' padding *)
(***************************************************************************)
encodeStd(i) ==
    IF i < 26 THEN 65 + i
    ELSE IF i < 52 THEN 97 + (i - 26)
    ELSE IF i < 62 THEN 48 + (i - 52)
    ELSE IF i = 62 THEN PLUS
    ELSE SLASH

inAlphabet(c) ==
    \/ (c >= 65 /\ c <= 90)
    \/ (c >= 97 /\ c <= 122)
    \/ (c >= 48 /\ c <= 57)
    \/ c = PLUS
    \/ c = SLASH

decodeMap(c) ==
    IF c >= 65 /\ c <= 90 THEN c - 65
    ELSE IF c >= 97 /\ c <= 122 THEN c - 97 + 26
    ELSE IF c >= 48 /\ c <= 57 THEN c - 48 + 52
    ELSE IF c = PLUS THEN 62
    ELSE 63

RECURSIVE EncodeToString(_)
EncodeToString(src) ==
    IF Len(src) = 0 THEN <<>>
    ELSE IF Len(src) = 1 THEN
        LET val == src[1] * 65536
        IN  <<encodeStd(val \div 262144), encodeStd((val \div 4096) % 64), PAD, PAD>>
    ELSE IF Len(src) = 2 THEN
        LET val == src[1] * 65536 + src[2] * 256
        IN  <<encodeStd(val \div 262144), encodeStd((val \div 4096) % 64),
              encodeStd((val \div 64) % 64), PAD>>
    ELSE
        LET val == src[1] * 65536 + src[2] * 256 + src[3]
        IN  <<encodeStd(val \div 262144), encodeStd((val \div 4096) % 64),
              encodeStd((val \div 64) % 64), encodeStd(val % 64)>>
            \o EncodeToString(SubSeq(src, 4, Len(src)))

(* The decoder skips '\r' and '\n' wherever they stand. *)
RECURSIVE stripNewlines(_)
stripNewlines(s) ==
    IF Len(s) = 0 THEN <<>>
    ELSE IF s[1] = CR \/ s[1] = LF THEN stripNewlines(Tail(s))
    ELSE <<s[1]>> \o stripNewlines(Tail(s))

(* One quantum at a time, as decodeQuantum does; the result is             *)
(* [ok |-> BOOLEAN, bytes |-> decoded].  Not strict: the unused low bits   *)
(* of a padded quantum are not checked.                                    *)
RECURSIVE decodeQuanta(_)
decodeQuanta(s) ==
    LET bad == [ok |-> FALSE, bytes |-> <<>>]
        n == Len(s)
        good == IF n >= 1 /\ inAlphabet(s[1]) THEN
                    IF n >= 2 /\ inAlphabet(s[2]) THEN
                        IF n >= 3 /\ inAlphabet(s[3]) THEN
                            IF n >= 4 /\ inAlphabet(s[4]) THEN 4 ELSE 3
                        ELSE 2
                    ELSE 1
                ELSE 0
    IN  IF n = 0 THEN [ok |-> TRUE, bytes |-> <<>>]
        ELSE IF good = 4 THEN
            LET val == decodeMap(s[1]) * 262144 + decodeMap(s[2]) * 4096
                       + decodeMap(s[3]) * 64 + decodeMap(s[4])
                rest == decodeQuanta(SubSeq(s, 5, n))
            IN  IF rest.ok
                THEN [ok |-> TRUE,
                      bytes |-> <<val \div 65536, (val \div 256) % 256, val % 256>>
                                \o rest.bytes]
                ELSE bad
        ELSE IF n = good THEN bad            \* input ends inside a quantum
        ELSE IF s[good + 1] # PAD THEN bad   \* illegal character
        ELSE IF good < 2 THEN bad            \* padding after 0 or 1 characters
        ELSE IF good = 2 THEN
            IF n = 4 /\ s[4] = PAD THEN
                LET val == decodeMap(s[1]) * 262144 + decodeMap(s[2]) * 4096
                IN  [ok |-> TRUE, bytes |-> <<val \div 65536>>]
            ELSE bad
        ELSE
            IF n = 4 THEN
                LET val == decodeMap(s[1]) * 262144 + decodeMap(s[2]) * 4096
                           + decodeMap(s[3]) * 64
                IN  [ok |-> TRUE, bytes |-> <<val \div 65536, (val \div 256) % 256>>]
            ELSE bad

DecodeString(s) == decodeQuanta(stripNewlines(s))

(***************************************************************************)
(* strings.Split(line, KV_SEPERATOR): the separator is one byte, so the    *)
(* parts are the stretches between its occurrences.                        *)
(***************************************************************************)
sepPositions(line) == {i \in 1..Len(line) : line[i] = KV_SEPERATOR[1]}

(* The stretches of s from position `from` on, each ending right before    *)
(* the next of the positions `ends`.                                       *)
RECURSIVE cutAt(_, _, _)
cutAt(s, from, ends) ==
    IF ends = {} THEN <<>>
    ELSE LET e == CHOOSE x \in ends : \A y \in ends : x <= y
         IN  <<SubSeq(s, from, e - 1)>> \o cutAt(s, e + 1, ends \ {e})

Split(line) == cutAt(line, 1, sepPositions(line) \cup {Len(line) + 1})

(***************************************************************************)
(* The record codec.                                                       *)
(***************************************************************************)
parse_hpoon_line(line) ==
    LET parts == Split(line)
    IN  IF Len(parts) # 2
        THEN [err |-> TRUE, key |-> <<>>, value |-> <<>>]
        ELSE LET decoded == DecodeString(parts[2])
             IN  IF ~decoded.ok
                 THEN [err |-> TRUE, key |-> <<>>, value |-> <<>>]
                 ELSE [err |-> FALSE, key |-> parts[1], value |-> decoded.bytes]

create_hpoon_line(key, value) == key \o KV_SEPERATOR \o EncodeToString(value)

(***************************************************************************)
(* bufio.Scanner with ScanLines over the bytes of the file: the lines are  *)
(* the stretches between '\n' bytes, a last unterminated stretch counts    *)
(* when it is not empty, and one trailing '\r' is dropped from each line.  *)
(* A line of MaxScanTokenSize bytes or more cannot be buffered: Scan stops *)
(* and Err() is bufio.ErrTooLong.                                          *)
(***************************************************************************)
dropCR(data) ==
    IF Len(data) > 0 /\ data[Len(data)] = CR
    THEN SubSeq(data, 1, Len(data) - 1)
    ELSE data

lineEnds(bytes) ==
    {i \in 1..Len(bytes) : bytes[i] = LF}
        \cup (IF Len(bytes) > 0 /\ bytes[Len(bytes)] # LF THEN {Len(bytes) + 1} ELSE {})

rawLines(bytes) == cutAt(bytes, 1, lineEnds(bytes))

scannerErr(raw) == \E k \in 1..Len(raw) : Len(raw[k]) >= MaxScanTokenSize

(***************************************************************************)
(* HarpoonRecord: last_marked is a string, marks a map from string to      *)
(* string (a function whose domain is the set of keys present).            *)
(***************************************************************************)
EmptyMarks == [k \in {} |-> <<>>]

HarpoonRecord(last_marked, marks) == [last_marked |-> last_marked, marks |-> marks]

EmptyRecord == HarpoonRecord(<<>>, EmptyMarks)

mapAssign(m, key, value) ==
    [k \in DOMAIN m \cup {key} |-> IF k = key THEN value ELSE m[k]]

(* scanLoop with the `continue` after a malformed line turned into a       *)
(* `break`.                                                                *)
RECURSIVE scanLoop_break(_, _, _, _)
scanLoop_break(lines, i, last_marked, data) ==
    IF i > Len(lines) THEN [last_marked |-> last_marked, marks |-> data]
    ELSE LET parsed == parse_hpoon_line(dropCR(lines[i]))
         IN  IF parsed.err THEN [last_marked |-> last_marked, marks |-> data]
             ELSE IF parsed.key = LAST_MARKED_KEY
                  THEN scanLoop_break(lines, i + 1, parsed.value, data)
                  ELSE scanLoop_break(lines, i + 1, last_marked,
                                      mapAssign(data, parsed.key, parsed.value))

(* scanLoop made to keep the first value of a key and drop later ones. *)
RECURSIVE scanLoop_first(_, _, _, _)
scanLoop_first(lines, i, last_marked, data) ==
    IF i > Len(lines) THEN [last_marked |-> last_marked, marks |-> data]
    ELSE LET parsed == parse_hpoon_line(dropCR(lines[i]))
         IN  IF parsed.err THEN scanLoop_first(lines, i + 1, last_marked, data)
             ELSE IF parsed.key = LAST_MARKED_KEY
                  THEN scanLoop_first(lines, i + 1,
                                      IF last_marked = <<>> THEN parsed.value
                                      ELSE last_marked, data)
                  ELSE scanLoop_first(lines, i + 1, last_marked,
                                      IF parsed.key \in DOMAIN data THEN data
                                      ELSE mapAssign(data, parsed.key, parsed.value))

(* The scanning loop of read_hpoon_file from line i on; scanner.Text() is  *)
(* the line without its trailing '\r'.                                     *)
RECURSIVE scanLoop(_, _, _, _)
scanLoop(lines, i, last_marked, data) ==
    IF i > Len(lines) THEN HarpoonRecord(last_marked, data)
    ELSE LET parsed == parse_hpoon_line(dropCR(lines[i]))
         IN  IF parsed.err THEN scanLoop(lines, i + 1, last_marked, data)
             ELSE IF parsed.key = LAST_MARKED_KEY
                  THEN scanLoop(lines, i + 1, parsed.value, data)
                  ELSE scanLoop(lines, i + 1, last_marked,
                                mapAssign(data, parsed.key, parsed.value))

(* read_hpoon_file made to quit at a malformed line. *)
read_hpoon_file_strict(bytes) ==
    LET raw == rawLines(bytes)
    IN  IF scannerErr(raw) \/ \E k \in 1..Len(raw) : parse_hpoon_line(dropCR(raw[k])).err
        THEN [quit |-> TRUE, record |-> EmptyRecord]
        ELSE [quit |-> FALSE, record |-> scanLoop(raw, 1, <<>>, EmptyMarks)]

(* The file opens (it exists and is readable).  The result is the record,  *)
(* or quit when scanner.Err() is set.                                      *)
read_hpoon_file(bytes) ==
    LET raw == rawLines(bytes)
    IN  IF scannerErr(raw)
        THEN [quit |-> TRUE, record |-> EmptyRecord]
        ELSE [quit |-> FALSE, record |-> scanLoop(raw, 1, <<>>, EmptyMarks)]

(* The orders in which `range data.marks` may visit the keys. *)
rangeOrders(marks) ==
    {o \in [1..Cardinality(DOMAIN marks) -> DOMAIN marks] :
        \A i, j \in 1..Cardinality(DOMAIN marks) : i # j => o[i] # o[j]}

RECURSIVE writeMarks(_, _, _)
writeMarks(marks, order, i) ==
    IF i > Len(order) THEN <<>>
    ELSE (IF marks[order[i]] = <<>>
          THEN <<>>
          ELSE create_hpoon_line(order[i], marks[order[i]]) \o <<LF>>)
         \o writeMarks(marks, order, i + 1)

(* write_hpoon_file without the early return on an empty last_marked. *)
write_hpoon_file_always(data, order) ==
    create_hpoon_line(LAST_MARKED_KEY, data.last_marked) \o <<LF>>
        \o writeMarks(data.marks, order, 1)

(* The bytes of the file after write_hpoon_file: os.Create truncates, an   *)
(* empty last_marked returns before anything is written.                   *)
write_hpoon_file(data, order) ==
    IF data.last_marked = <<>> THEN <<>>
    ELSE create_hpoon_line(LAST_MARKED_KEY, data.last_marked) \o <<LF>>
         \o writeMarks(data.marks, order, 1)

(***************************************************************************)
(* The store file: [exists, bytes].                                        *)
(***************************************************************************)
NoFile == [exists |-> FALSE, bytes |-> <<>>]

File(bytes) == [exists |-> TRUE, bytes |-> bytes]

(* load_hpoon: an absent file is created empty, then read. *)
load_hpoon(st) == read_hpoon_file(IF st.exists THEN st.bytes ELSE <<>>)

(* load_hpoon made to call os.Create whether or not the file exists. *)
created_trunc(st) == File(<<>>)

(* The store file after load_hpoon: created empty if it was absent. *)
created(st) == IF st.exists THEN st ELSE File(<<>>)

(* save_hpoon: the store file write_hpoon_file leaves. *)
save_hpoon(data, order) == File(write_hpoon_file(data, order))

(***************************************************************************)
(* A name argument is a pointer: NoName is nil, Some(n) points at n.       *)
(***************************************************************************)
NoName == <<>>

Some(n) == <<n>>

(***************************************************************************)
(* The filesystem the command line looks at: fs maps each existing node    *)
(* (an absolute path) to "file" or "dir"; the root directory always        *)
(* exists.  The working directory is the root.                             *)
(***************************************************************************)
Root == <<SLASH>>

CWD == Root

child(node, c) == IF node = Root THEN Root \o c ELSE node \o <<SLASH>> \o c

components(path) ==
    cutAt(path, 1, {i \in 1..Len(path) : path[i] = SLASH} \cup {Len(path) + 1})

isAbs(path) == Len(path) > 0 /\ path[1] = SLASH

(* filepath.Clean of a rooted path: empty and "." elements are dropped,    *)
(* ".." drops the element before it.                                       *)
RECURSIVE cleanFrom(_, _, _)
cleanFrom(comps, i, acc) ==
    IF i > Len(comps) THEN acc
    ELSE IF comps[i] = <<>> \/ comps[i] = <<DOT>> THEN cleanFrom(comps, i + 1, acc)
    ELSE IF comps[i] = <<DOT, DOT>>
         THEN cleanFrom(comps, i + 1,
                        IF acc = <<>> THEN acc ELSE SubSeq(acc, 1, Len(acc) - 1))
    ELSE cleanFrom(comps, i + 1, Append(acc, comps[i]))

RECURSIVE joinFrom(_, _)
joinFrom(comps, i) ==
    IF i > Len(comps) THEN <<>>
    ELSE <<SLASH>> \o comps[i] \o joinFrom(comps, i + 1)

Clean(path) ==
    LET comps == cleanFrom(components(path), 1, <<>>)
    IN  IF comps = <<>> THEN Root ELSE joinFrom(comps, 1)

(* filepath.Abs: an absolute path is cleaned, any other is joined to the   *)
(* working directory. *)
Abs(path) == IF isAbs(path) THEN Clean(path) ELSE Clean(CWD \o <<SLASH>> \o path)

(* os.Stat: "nil" when the path names a file or directory, "ENOENT" when   *)
(* an element is missing, "ENOTDIR" when an element that is not the last   *)
(* is a file.                                                              *)
RECURSIVE walk(_, _, _, _)
walk(files, comps, i, node) ==
    IF i > Len(comps) THEN "nil"
    ELSE IF node # Root /\ files[node] # "dir" THEN "ENOTDIR"
    ELSE IF comps[i] = <<>> \/ comps[i] = <<DOT>> THEN walk(files, comps, i + 1, node)
    ELSE IF child(node, comps[i]) \notin DOMAIN files THEN "ENOENT"
    ELSE walk(files, comps, i + 1, child(node, comps[i]))

Stat(files, path) ==
    IF path = <<>> THEN "ENOENT"
    ELSE walk(files, components(IF isAbs(path) THEN path ELSE CWD \o <<SLASH>> \o path),
              1, Root)

(* check_path_exists: every Stat error but "does not exist" counts as      *)
(* existing.                                                               *)
check_path_exists(files, fpath) == Stat(files, fpath) # "ENOENT"

(***************************************************************************)
(* The command operations.  Each begins with l == load_hpoon(store); l is  *)
(* handed to the operators below so that one step loads once.              *)
(***************************************************************************)
setData(data, fpath, name) ==
    HarpoonRecord(fpath,
                  IF name # NoName THEN mapAssign(data.marks, name[1], fpath)
                  ELSE data.marks)

(* hpoon_set_mark: the store file it leaves; order is the order in which   *)
(* write_hpoon_file's range visits the marks.  When load quits, the file   *)
(* load_hpoon created is all that is left.                                 *)
hpoon_set_mark(st, l, fpath, name, order) ==
    IF l.quit THEN created(st)
    ELSE File(write_hpoon_file(setData(l.record, fpath, name), order))

(* hpoon_get_mark: [res, out]; res is "ok", "notfound" (the returned       *)
(* error) or "fatal" (load quit).                                          *)
hpoon_get_mark(l, name) ==
    IF l.quit THEN [res |-> "fatal", out |-> <<>>]
    ELSE IF name = NoName THEN [res |-> "ok", out |-> l.record.last_marked]
    ELSE IF name[1] \notin DOMAIN l.record.marks
         THEN [res |-> "notfound", out |-> <<>>]
         ELSE [res |-> "ok", out |-> l.record.marks[name[1]]]

(* hpoon_list: the (mark, path) pairs its range visits, in order, and the  *)
(* text it prints: "mark: path\n" for each.                                *)
listEntries(marks, order) == [i \in 1..Len(order) |-> <<order[i], marks[order[i]]>>]

RECURSIVE listOutput(_, _)
listOutput(entries, i) ==
    IF i > Len(entries) THEN <<>>
    ELSE entries[i][1] \o <<COLON, SPACE>> \o entries[i][2] \o <<LF>>
         \o listOutput(entries, i + 1)

hpoon_list(l, order) ==
    IF l.quit THEN [res |-> "fatal", out |-> <<>>, entries |-> <<>>]
    ELSE [res |-> "ok",
          out |-> listOutput(listEntries(l.record.marks, order), 1),
          entries |-> listEntries(l.record.marks, order)]

(* hpoon_clean made to truncate nothing and remove nothing. *)
hpoon_clean_noop(st) == st

(* hpoon_clean: os.Remove of the store file; its error is dropped. *)
hpoon_clean(st) == NoFile

(***************************************************************************)
(* What the model remembers of the last operation, cur:                    *)
(*   kind    "none" | "set" | "get" | "list" | "clean" | "help" |          *)
(*           "nopath" (quit: the path does not exist) | "usage" (quit)     *)
(*   path    the path handed to hpoon_set_mark                             *)
(*   name    the name handed to hpoon_set_mark / hpoon_get_mark            *)
(*   res     "ok" | "notfound" | "fatal"                                   *)
(*   out     the path returned (get) or the text printed (list)            *)
(*   entries the pairs hpoon_list visited                                  *)
(*   fresh   the store file was absent or empty when the operation began   *)
(*   argv    the command line after the program name (CLI runs only)       *)
(*   existed whether the path argument named an existing file or directory *)
(*           when the command ran                                          *)
(* named is the set of names n for which a hpoon_set_mark(_, n) has        *)
(* completed since the store was last cleaned.                             *)
(***************************************************************************)
Op(kind, path, name, res, out, entries, fresh, argv, existed) ==
    [kind |-> kind, path |-> path, name |-> name, res |-> res, out |-> out,
     entries |-> entries, fresh |-> fresh, argv |-> argv, existed |-> existed]

NoOp == Op("none", <<>>, NoName, "ok", <<>>, <<>>, TRUE, <<>>, TRUE)

(* The process's exit status: os.Exit(1) in quit and after a failed get. *)
exitCode(op) == IF op.res = "ok" THEN 0 ELSE 1

Record(st) == load_hpoon(st).record

isFresh(st) == st.bytes = <<>>

Done(op, st) ==
    /\ store' = st
    /\ cur' = op

(***************************************************************************)
(* Inputs of the operations.                                               *)
(***************************************************************************)
Paths == { <<47, 97>>,          \* "/a"
           <<47, 98>>,          \* "/b"
           <<47, 97, 63>> }     \* "/a?"

Names == { <<120>>,             \* "x"
           <<121>>,             \* "y"
           <<97, 47, 98>>,      \* "a/b"
           <<120, 10, 121>>,    \* "x\ny"
           LAST_MARKED_KEY }    \* "_"

NameArgs == {NoName} \cup {Some(n) : n \in Names}

(***************************************************************************)
(* Spec: the four command operations, each run to completion, on a store   *)
(* that starts absent.                                                     *)
(***************************************************************************)
NoFs == [n \in {} |-> "file"]

(* No process is mid-run: every command runs to completion in one step. *)
NoProcs == [p \in {} |-> "none"]

IdleRd == [done |-> FALSE, quit |-> FALSE, record |-> EmptyRecord]

IdleCodec ==
    [phase |-> "idle", key |-> <<>>, value |-> <<>>, line |-> <<>>,
     parsed |-> [err |-> FALSE, key |-> <<>>, value |-> <<>>]]

Init ==
    /\ store = NoFile
    /\ cur = NoOp
    /\ named = {}
    /\ fs = NoFs
    /\ rd = IdleRd
    /\ codec = IdleCodec
    /\ procs = NoProcs

SetMark ==
    \E l \in {load_hpoon(store)} :
        \E fpath \in Paths, name \in NameArgs :
        \E order \in rangeOrders(setData(l.record, fpath, name).marks) :
            /\ Done(Op("set", fpath, name, IF l.quit THEN "fatal" ELSE "ok",
                       <<>>, <<>>, isFresh(store), <<>>, TRUE),
                    hpoon_set_mark(store, l, fpath, name, order))
            /\ named' = (IF name = NoName THEN named ELSE named \cup {name[1]})
            /\ UNCHANGED <<fs, rd, codec, procs>>

GetMark ==
    \E l \in {load_hpoon(store)} :
        \E name \in NameArgs :
        LET r == hpoon_get_mark(l, name)
        IN  /\ Done(Op("get", <<>>, name, r.res, r.out, <<>>, isFresh(store), <<>>, TRUE),
                    created(store))
            /\ UNCHANGED <<named, fs, rd, codec, procs>>

ListMarks ==
    \E l \in {load_hpoon(store)} :
        \E order \in rangeOrders(l.record.marks) :
        LET r == hpoon_list(l, order)
        IN  /\ Done(Op("list", <<>>, NoName, r.res, r.out, r.entries, isFresh(store),
                       <<>>, TRUE),
                    created(store))
            /\ UNCHANGED <<named, fs, rd, codec, procs>>

CleanMarks ==
    /\ Done(Op("clean", <<>>, NoName, "ok", <<>>, <<>>, isFresh(store), <<>>, TRUE),
            hpoon_clean(store))
    /\ named' = {}
    /\ UNCHANGED <<fs, rd, codec, procs>>

Next == SetMark \/ GetMark \/ ListMarks \/ CleanMarks

Spec == Init /\ [][Next]_vars

(***************************************************************************)
(* SpecCodec: the line codec on its own.  A key and a path are drawn, the  *)
(* line is created, then parsed.                                           *)
(***************************************************************************)
MaxLen == 3

PathBytes == {SLASH, 97, 63, LF, 195}      \* '/'  'a'  '?'  '\n'  0xC3

RECURSIVE Strings(_, _)
Strings(alphabet, n) ==
    IF n = 0 THEN {<<>>}
    ELSE Strings(alphabet, n - 1)
         \cup {<<c>> \o t : c \in alphabet, t \in {u \in Strings(alphabet, n - 1) : Len(u) = n - 1}}

CodecKeys == { <<120>>, <<97, 98>> }       \* "x"  "ab"

InitCodec ==
    /\ store = NoFile
    /\ cur = NoOp
    /\ named = {}
    /\ fs = NoFs
    /\ rd = IdleRd
    /\ procs = NoProcs
    /\ \E k \in CodecKeys, p \in Strings(PathBytes, MaxLen) :
           codec = [IdleCodec EXCEPT !.phase = "input", !.key = k, !.value = p]

CreateLine ==
    /\ codec.phase = "input"
    /\ codec' = [codec EXCEPT !.phase = "created",
                              !.line = create_hpoon_line(codec.key, codec.value)]
    /\ UNCHANGED <<store, cur, named, fs, rd, procs>>

ParseLine ==
    /\ codec.phase = "created"
    /\ codec' = [codec EXCEPT !.phase = "parsed",
                              !.parsed = parse_hpoon_line(codec.line)]
    /\ UNCHANGED <<store, cur, named, fs, rd, procs>>

NextCodec == CreateLine \/ ParseLine

SpecCodec == InitCodec /\ [][NextCodec]_vars

(***************************************************************************)
(* SpecLoad: read_hpoon_file on a store file that holds any lines: the     *)
(* file is drawn from the files of at most MaxLines lines of LineCat.      *)
(***************************************************************************)
MaxLines == 2

LongLine == [i \in 1..MaxScanTokenSize |-> 65]     \* "AAAA...", no separator

LineCat ==
    { <<120, 47, 76, 50, 69, 61>>,          \* "x/L2E="    x -> "/a"
      <<120, 47, 76, 50, 73, 61>>,          \* "x/L2I="    x -> "/b"
      <<95, 47, 76, 50, 69, 61>>,           \* "_/L2E="    last_marked -> "/a"
      <<95, 47, 76, 50, 73, 61>>,           \* "_/L2I="    last_marked -> "/b"
      <<121, 47, 76, 50, 73, 61, 13>>,      \* "y/L2I=\r"  y -> "/b", CR LF ending
      <<121>>,                              \* "y"         one part
      <<120, 47, 76, 50, 69, 47>>,          \* "x/L2E/"    three parts
      <<121, 47, 76, 50, 69>>,              \* "y/L2E"     second part not base64
      LongLine }

RECURSIVE FilesOf(_)
FilesOf(n) ==
    IF n = 0 THEN {<<>>}
    ELSE {<<>>} \cup {line \o <<LF>> \o rest : line \in LineCat, rest \in FilesOf(n - 1)}

InitLoad ==
    /\ store \in {File(bytes) : bytes \in FilesOf(MaxLines)}
    /\ cur = NoOp
    /\ named = {}
    /\ fs = NoFs
    /\ rd = IdleRd
    /\ codec = IdleCodec
    /\ procs = NoProcs

ReadFile ==
    /\ ~rd.done
    /\ \E r \in {read_hpoon_file(store.bytes)} :
           rd' = [done |-> TRUE, quit |-> r.quit, record |-> r.record]
    /\ UNCHANGED <<store, cur, named, fs, codec, procs>>

NextLoad == ReadFile

SpecLoad == InitLoad /\ [][NextLoad]_vars

(***************************************************************************)
(* SpecCLI: the command line.  main dispatches on the number of arguments; *)
(* between runs the user creates and removes files and directories.        *)
(***************************************************************************)
Nodes == { <<47, 97>>,                          \* "/a"
           <<47, 97, 47, 98, 99, 63>> }         \* "/a/bc?"

parent(node) ==
    LET comps == cleanFrom(components(node), 1, <<>>)
    IN  IF Len(comps) <= 1 THEN Root ELSE joinFrom(SubSeq(comps, 1, Len(comps) - 1), 1)

HELP_SHORT == <<45, 104>>                       \* "-h"
HELP_LONG == <<45, 45, 104, 101, 108, 112>>     \* "--help"
CLEAN == <<99, 108, 101, 97, 110>>              \* "clean"
LIST == <<108, 105, 115, 116>>                  \* "list"

PathArgs == { <<47, 97>>,                       \* "/a"
              <<47, 97, 47, 98>>,               \* "/a/b"
              <<47, 97, 47, 98, 99, 63>>,       \* "/a/bc?"
              <<DOT>>,                          \* "."
              <<97>> }                          \* "a"

CliNames == { <<120>>, <<121>> }        \* "x"  "y"

SingleArgs ==
    {HELP_SHORT, HELP_LONG, CLEAN, LIST} \cup {NAME_REF \o n : n \in CliNames} \cup PathArgs

InitCLI ==
    /\ store = NoFile
    /\ cur = NoOp
    /\ named = {}
    /\ fs = NoFs
    /\ rd = IdleRd
    /\ codec = IdleCodec
    /\ procs = NoProcs

FsCreate ==
    /\ \E node \in Nodes \ DOMAIN fs, kind \in {"file", "dir"} :
           /\ parent(node) = Root \/ (parent(node) \in DOMAIN fs /\ fs[parent(node)] = "dir")
           /\ fs' = [n \in DOMAIN fs \cup {node} |-> IF n = node THEN kind ELSE fs[n]]
    /\ UNCHANGED <<store, cur, named, rd, codec, procs>>

FsRemove ==
    /\ \E node \in DOMAIN fs :
           /\ \A n \in DOMAIN fs : parent(n) # node
           /\ fs' = [n \in DOMAIN fs \ {node} |-> fs[n]]
    /\ UNCHANGED <<store, cur, named, rd, codec, procs>>

(* The steps below take l, what load_hpoon() returns at their start.       *)
(* The body of hpoon_set_mark as a step of the command line. *)
cliSet(l, argv, fpath, name, existed) ==
    \E order \in rangeOrders(setData(l.record, fpath, name).marks) :
        /\ Done(Op("set", fpath, name, IF l.quit THEN "fatal" ELSE "ok",
                   <<>>, <<>>, isFresh(store), argv, existed),
                hpoon_set_mark(store, l, fpath, name, order))
        /\ named' = (IF name = NoName THEN named ELSE named \cup {name[1]})

(* hpoon_get_mark and the printing of its result, as a step. *)
cliGet(l, argv, name) ==
    \E r \in {hpoon_get_mark(l, name)} :
        /\ Done(Op("get", <<>>, name, r.res, r.out, <<>>, isFresh(store), argv,
                   TRUE),
                created(store))
        /\ UNCHANGED named

(* quit before the store is touched. *)
cliQuit(kind, argv, fpath, name) ==
    /\ Done(Op(kind, fpath, name, "fatal", <<>>, <<>>, isFresh(store), argv, FALSE), store)
    /\ UNCHANGED named

run_no_arg ==
    /\ \E l \in {load_hpoon(store)} : cliGet(l, <<>>, NoName)
    /\ UNCHANGED <<fs, rd, codec, procs>>

run_single_arg ==
    /\ \E l \in {load_hpoon(store)} : \E arg \in SingleArgs :
        IF arg = HELP_SHORT \/ arg = HELP_LONG THEN
            /\ Done(Op("help", <<>>, NoName, "ok", <<>>, <<>>, isFresh(store), <<arg>>, TRUE),
                    store)
            /\ UNCHANGED named
        ELSE IF arg = CLEAN THEN
            /\ Done(Op("clean", <<>>, NoName, "ok", <<>>, <<>>, isFresh(store), <<arg>>, TRUE),
                    hpoon_clean(store))
            /\ named' = {}
        ELSE IF arg = LIST THEN
            \E order \in rangeOrders(l.record.marks) :
                \E r \in {hpoon_list(l, order)} :
                    /\ Done(Op("list", <<>>, NoName, r.res, r.out, r.entries,
                               isFresh(store), <<arg>>, TRUE),
                            created(store))
                    /\ UNCHANGED named
        ELSE IF Len(arg) >= Len(NAME_REF) /\ SubSeq(arg, 1, Len(NAME_REF)) = NAME_REF THEN
            cliGet(l, <<arg>>, Some(SubSeq(arg, Len(NAME_REF) + 1, Len(arg))))
        ELSE
            \E path \in {Abs(arg)} :
                \E err \in {Stat(fs, path)} :
                    IF check_path_exists(fs, path)
                    THEN cliSet(l, <<arg>>, path, NoName, err = "nil")
                    ELSE cliQuit("nopath", <<arg>>, path, NoName)
    /\ UNCHANGED <<fs, rd, codec, procs>>

run_double_arg ==
    /\ \E l \in {load_hpoon(store)} : \E arg \in PathArgs, name \in CliNames :
        \E err \in {Stat(fs, arg)} :
            IF ~check_path_exists(fs, arg)
            THEN cliQuit("nopath", <<arg, name>>, arg, Some(name))
            ELSE \E path \in {IF arg = <<DOT>> THEN CWD ELSE arg} :
                     cliSet(l, <<arg, name>>, path, Some(name), err = "nil")
    /\ UNCHANGED <<fs, rd, codec, procs>>

(* More than two arguments: quit(short_help). *)
run_usage ==
    /\ \E argv \in {<<CWD, LIST, CLEAN>>} :
           cliQuit("usage", argv, <<>>, NoName)
    /\ UNCHANGED <<fs, rd, codec, procs>>

NextCLI ==
    \/ run_no_arg
    \/ run_single_arg
    \/ run_double_arg
    \/ run_usage
    \/ FsCreate
    \/ FsRemove

SpecCLI == InitCLI /\ [][NextCLI]_vars

(***************************************************************************)
(* SpecSave: save_hpoon of any record, load_hpoon, and hpoon_set_mark with *)
(* the empty path, on a store that starts absent or holding marks.  After  *)
(* a save, rd.record is the record that was saved and cur.entries the      *)
(* order in which its marks were visited; after a load, rd is what the     *)
(* load returned.                                                          *)
(***************************************************************************)
SaveKeys == { <<120>>, <<121>> }            \* "x"  "y"

SaveValues == { <<>>,                       \* ""
                <<47, 97>>,                 \* "/a"
                <<47, 97, 63>> }            \* "/a?"

MarksOver(keys) == UNION {[ks -> SaveValues] : ks \in SUBSET keys}

SaveRecords ==
    {HarpoonRecord(lm, marks) : lm \in SaveValues, marks \in MarksOver(SaveKeys)}

(* "_/L2E=\nx/L2I=\n": last_marked "/a", x -> "/b". *)
SeededFile == File(<<95, 47, 76, 50, 69, 61, 10, 120, 47, 76, 50, 73, 61, 10>>)

InitSave ==
    /\ store \in {NoFile, SeededFile}
    /\ cur = NoOp
    /\ named = {}
    /\ fs = NoFs
    /\ rd = IdleRd
    /\ codec = IdleCodec
    /\ procs = NoProcs

SaveRecord ==
    /\ \E data \in SaveRecords :
        \E order \in rangeOrders(data.marks) :
            /\ Done(Op("save", <<>>, NoName, "ok", <<>>, order, isFresh(store), <<>>, TRUE),
                    save_hpoon(data, order))
            /\ rd' = [done |-> FALSE, quit |-> FALSE, record |-> data]
    /\ UNCHANGED <<named, fs, codec, procs>>

LoadRecord ==
    /\ \E l \in {load_hpoon(store)} :
            /\ Done(Op("load", <<>>, NoName, IF l.quit THEN "fatal" ELSE "ok",
                       <<>>, <<>>, isFresh(store), <<>>, TRUE),
                    created(store))
            /\ rd' = [done |-> TRUE, quit |-> l.quit, record |-> l.record]
    /\ UNCHANGED <<named, fs, codec, procs>>

SetEmptyPath ==
    /\ \E l \in {load_hpoon(store)} :
        \E name \in {NoName} \cup {Some(n) : n \in SaveKeys} :
        \E order \in rangeOrders(setData(l.record, <<>>, name).marks) :
            /\ Done(Op("set", <<>>, name, IF l.quit THEN "fatal" ELSE "ok",
                       <<>>, <<>>, isFresh(store), <<>>, TRUE),
                    hpoon_set_mark(store, l, <<>>, name, order))
            /\ named' = (IF name = NoName THEN named ELSE named \cup {name[1]})
    /\ UNCHANGED <<fs, rd, codec, procs>>

NextSave == SaveRecord \/ LoadRecord \/ SetEmptyPath

SpecSave == InitSave /\ [][NextSave]_vars

(***************************************************************************)
(* SpecRace: two invocations of the program run as separate processes on   *)
(* one store file, their system calls interleaved.  Nothing in the program *)
(* locks the file.  A process record, procs[p]:                            *)
(*   kind, path, name  the invocation: "set" | "get" | "list" | "clean"    *)
(*   pc      the next step: "stat", "create", "open", "read" (load_hpoon   *)
(*           and read_hpoon_file), "trunc", "writeLast", "writeMarks"      *)
(*           (write_hpoon_file), "remove" (hpoon_clean), "done"            *)
(*   fd      "none" | "live" (open on the file the store path names) |     *)
(*           "orphan" (open on a file that has been removed since)         *)
(*   inode   the bytes of the orphan file                                  *)
(*   off     the file offset of fd                                         *)
(*   buf     the bytes the scanner has read                                *)
(*   data    the record after load (and after the assignments of set)      *)
(*   todo    the marks `range data.marks` has not visited yet              *)
(*   res, out  the outcome, as in cur                                      *)
(*   err     "none" | "open" (os.Open failed) | "scan" (scanner.Err())     *)
(*   wrote   the bytes this process has written                            *)
(*   early   no other set was still to load when this one began to save    *)
(*   overlapped  this save began or ran while another save was under way   *)
(*   last    every other process was done when this one finished           *)
(* With two processes a removed file is open in at most one of them.       *)
(* One file.WriteString is one write: a line and its "\n" appear together. *)
(***************************************************************************)
Procs == {"p", "q"}

Invocation(kind, path, name) == [kind |-> kind, path |-> path, name |-> name]

RaceInvs ==
    { Invocation("set", <<47, 97>>, NoName),                    \* hpoon /a
      Invocation("set", <<47, 97, 47, 98>>, Some(<<121>>)),     \* hpoon /a/b y
      Invocation("get", <<>>, NoName),                          \* hpoon
      Invocation("get", <<>>, Some(<<120>>)),                   \* hpoon !x
      Invocation("list", <<>>, NoName),                         \* hpoon list
      Invocation("clean", <<>>, NoName) }                       \* hpoon clean

Start(inv) ==
    [kind |-> inv.kind, path |-> inv.path, name |-> inv.name,
     pc |-> IF inv.kind = "clean" THEN "remove" ELSE "stat",
     fd |-> "none", inode |-> <<>>, off |-> 0, buf |-> <<>>,
     data |-> EmptyRecord, todo |-> {}, res |-> "ok", out |-> <<>>,
     err |-> "none", wrote |-> <<>>,
     early |-> TRUE, overlapped |-> FALSE, last |-> FALSE]

InLoad(pr) == pr.pc \in {"stat", "create", "open", "read"}

InSave(pr) == pr.pc \in {"writeLast", "writeMarks"}

Finished(pr, p) ==
    [pr EXCEPT !.pc = "done", !.fd = "none",
               !.last = \A q \in Procs \ {p} : procs[q].pc = "done"]

(* os.Create: O_RDWR|O_CREATE|O_TRUNC. *)
osCreate_keep(st) == IF st.exists THEN st ELSE File(<<>>)

osCreate(st) == File(<<>>)

(* The file after a write of line at offset off: bytes between the old end *)
(* and off read as zero.                                                   *)
writeAt(bytes, off, line) ==
    [i \in 1..(IF Len(bytes) > off + Len(line) THEN Len(bytes) ELSE off + Len(line)) |->
        IF i > off /\ i <= off + Len(line) THEN line[i - off]
        ELSE IF i <= Len(bytes) THEN bytes[i]
        ELSE 0]

fileOf(pr) == IF pr.fd = "live" THEN store.bytes ELSE pr.inode

InitRace ==
    /\ store \in {NoFile, SeededFile}
    /\ cur = NoOp
    /\ named = {}
    /\ fs = NoFs
    /\ rd = [done |-> FALSE, quit |-> FALSE, record |-> Record(store)]
    /\ codec = IdleCodec
    /\ procs \in [Procs -> {Start(inv) : inv \in RaceInvs}]

(* load_hpoon: check_path_exists(hpoon_file). *)
LoadStat(p) ==
    /\ procs[p].pc = "stat"
    /\ procs' = [procs EXCEPT ![p].pc = IF store.exists THEN "open" ELSE "create"]
    /\ UNCHANGED <<store, cur, named, fs, rd, codec>>

(* load_hpoon: os.Create(hpoon_file), reached when check_path_exists found *)
(* the file absent.                                                        *)
LoadCreate(p) ==
    /\ procs[p].pc = "create"
    /\ store' = osCreate(store)
    /\ procs' = [procs EXCEPT ![p].pc = "open"]
    /\ UNCHANGED <<cur, named, fs, rd, codec>>

(* read_hpoon_file: os.Open, quit when it fails. *)
ReadOpen(p) ==
    /\ procs[p].pc = "open"
    /\ procs' = [procs EXCEPT ![p] =
                    IF store.exists
                    THEN [@ EXCEPT !.pc = "read", !.fd = "live", !.off = 0, !.buf = <<>>]
                    ELSE Finished([@ EXCEPT !.res = "fatal", !.err = "open"], p)]
    /\ UNCHANGED <<store, cur, named, fs, rd, codec>>

(* What the invocation does with the record it has loaded. *)
Loaded_(pr, p, l, order) ==
    IF l.quit THEN Finished([pr EXCEPT !.res = "fatal", !.err = "scan"], p)
    ELSE IF pr.kind = "get"
         THEN Finished([pr EXCEPT !.data = l.record,
                                  !.res = hpoon_get_mark(l, pr.name).res,
                                  !.out = hpoon_get_mark(l, pr.name).out], p)
    ELSE IF pr.kind = "list"
         THEN Finished([pr EXCEPT !.data = l.record,
                                  !.out = hpoon_list(l, order).out], p)
    ELSE [pr EXCEPT !.pc = "trunc", !.fd = "none",
                    !.data = setData(l.record, pr.path, pr.name)]

(* read_hpoon_file: one Read of the scanner.  It takes the bytes from the  *)
(* offset to the end of the file; when there are none the scan is over and *)
(* the lines read so far make the record.                                  *)
ReadScan(p) ==
    /\ procs[p].pc = "read"
    /\ \E chunk \in {SubSeq(fileOf(procs[p]), procs[p].off + 1, Len(fileOf(procs[p])))} :
        IF chunk # <<>>
        THEN procs' = [procs EXCEPT ![p].buf = @ \o chunk,
                                    ![p].off = @ + Len(chunk)]
        ELSE \E l \in {read_hpoon_file(procs[p].buf)} :
             \E order \in (IF procs[p].kind = "list" /\ ~l.quit
                           THEN rangeOrders(l.record.marks) ELSE {<<>>}) :
                 procs' = [procs EXCEPT ![p] = Loaded_(@, p, l, order)]
    /\ UNCHANGED <<store, cur, named, fs, rd, codec>>

(* write_hpoon_file: os.Create, and the return when last_marked is empty. *)
WriteCreate(p) ==
    /\ procs[p].pc = "trunc"
    /\ store' = osCreate(store)
    /\ procs' =
        [q \in Procs |->
            IF q = p
            THEN LET pr == [procs[p] EXCEPT
                               !.fd = "live", !.off = 0,
                               !.early = \A o \in Procs \ {p} :
                                             procs[o].kind = "set" => ~InLoad(procs[o]),
                               !.overlapped = \E o \in Procs \ {p} : InSave(procs[o])]
                 IN  IF pr.data.last_marked = <<>> THEN Finished(pr, p)
                     ELSE [pr EXCEPT !.pc = "writeLast"]
            ELSE [procs[q] EXCEPT !.overlapped = @ \/ InSave(procs[q])]]
    /\ UNCHANGED <<cur, named, fs, rd, codec>>

(* file.WriteString(line + "\n") by a process: the store file after it,   *)
(* and the process after it.                                               *)
storeAfterWrite(pr, line) ==
    IF pr.fd = "live" THEN File(writeAt(store.bytes, pr.off, line \o <<LF>>))
    ELSE store

procAfterWrite(pr, line) ==
    [pr EXCEPT !.inode = IF pr.fd = "live" THEN @
                         ELSE writeAt(@, pr.off, line \o <<LF>>),
               !.off = @ + Len(line) + 1,
               !.wrote = @ \o line \o <<LF>>]

(* write_hpoon_file: the last-marked line. *)
WriteLastMarked(p) ==
    /\ procs[p].pc = "writeLast"
    /\ \E line \in {create_hpoon_line(LAST_MARKED_KEY, procs[p].data.last_marked)} :
        /\ store' = storeAfterWrite(procs[p], line)
        /\ \E pr \in {procAfterWrite(procs[p], line)} :
               procs' = [procs EXCEPT ![p] =
                            IF DOMAIN pr.data.marks = {} THEN Finished(pr, p)
                            ELSE [pr EXCEPT !.pc = "writeMarks",
                                            !.todo = DOMAIN pr.data.marks]]
    /\ UNCHANGED <<cur, named, fs, rd, codec>>

(* write_hpoon_file: one turn of `range data.marks`; a mark with an empty  *)
(* path is passed over.                                                    *)
WriteMark(p) ==
    /\ procs[p].pc = "writeMarks"
    /\ \E key \in procs[p].todo :
       \E line \in {create_hpoon_line(key, procs[p].data.marks[key])} :
       \E pr \in {IF procs[p].data.marks[key] = <<>> THEN procs[p]
                  ELSE procAfterWrite(procs[p], line)} :
        /\ store' = IF procs[p].data.marks[key] = <<>> THEN store
                    ELSE storeAfterWrite(procs[p], line)
        /\ procs' = [procs EXCEPT ![p] =
                        IF pr.todo = {key} THEN Finished([pr EXCEPT !.todo = {}], p)
                        ELSE [pr EXCEPT !.todo = @ \ {key}]]
    /\ UNCHANGED <<cur, named, fs, rd, codec>>

(* hpoon_clean: os.Remove.  A process that has the file open keeps it. *)
CleanRemove(p) ==
    /\ procs[p].pc = "remove"
    /\ store' = hpoon_clean(store)
    /\ procs' =
        [q \in Procs |->
            IF q = p THEN Finished(procs[p], p)
            ELSE IF procs[q].fd = "live"
                 THEN [procs[q] EXCEPT !.fd = "orphan", !.inode = store.bytes]
                 ELSE procs[q]]
    /\ UNCHANGED <<cur, named, fs, rd, codec>>

NextRace ==
    \E p \in Procs :
        \/ LoadStat(p)
        \/ LoadCreate(p)
        \/ ReadOpen(p)
        \/ ReadScan(p)
        \/ WriteCreate(p)
        \/ WriteLastMarked(p)
        \/ WriteMark(p)
        \/ CleanRemove(p)

SpecRace == InitRace /\ [][NextRace]_vars

(***************************************************************************)
(* Claims about the command operations (Spec) and the codec (SpecCodec).   *)
(* What "the next get_mark / list_marks returns" is what hpoon_get_mark /  *)
(* hpoon_list compute from the store file the operation left.              *)
(***************************************************************************)
Loaded == load_hpoon(store)

Found(path) == [res |-> "ok", out |-> path]

(* C1: after set_mark(p, no name) the next get_mark(no name) returns       *)
(* exactly p.                                                              *)
C1_SetThenGet ==
    (cur.kind = "set" /\ cur.name = NoName)
        => hpoon_get_mark(Loaded, NoName) = Found(cur.path)

(* C2: after set_mark(p, n) with n other than the reserved key "_", the    *)
(* next get_mark(n) returns exactly p and the next get_mark(no name)       *)
(* returns exactly p.                                                      *)
C2_NamedSetThenGet ==
    (cur.kind = "set" /\ cur.name # NoName /\ cur.name # Some(LAST_MARKED_KEY))
        => /\ hpoon_get_mark(Loaded, cur.name) = Found(cur.path)
           /\ hpoon_get_mark(Loaded, NoName) = Found(cur.path)

(* C3: for every path p and every key k other than the reserved key,       *)
(* parse_hpoon_line(create_hpoon_line(k, p)) returns (k, p) without error, *)
(* and the separator never occurs in the base64 part of the created line.  *)
C3_LineRoundTrip ==
    /\ codec.phase \in {"created", "parsed"}
           => sepPositions(EncodeToString(codec.value)) = {}
    /\ codec.phase = "parsed"
           => codec.parsed = [err |-> FALSE, key |-> codec.key, value |-> codec.value]

(* What a set_mark is to do to the stored record. *)
SetFrame(before, after, op) ==
    /\ after.last_marked = op.path
    /\ op.name # NoName
           => /\ op.name[1] \in DOMAIN after.marks
              /\ after.marks[op.name[1]] = op.path
    /\ \A k \in (DOMAIN before.marks \cup DOMAIN after.marks) \ {op.name[i] : i \in DOMAIN op.name} :
           /\ k \in DOMAIN before.marks
           /\ k \in DOMAIN after.marks
           /\ after.marks[k] = before.marks[k]

(* C4: set_mark(p, no name) sets last_marked to p and leaves every named   *)
(* mark unchanged; set_mark(p, n) sets last_marked and marks[n] to p and   *)
(* leaves every named mark other than n unchanged (n a name, hence not the *)
(* reserved key).                                                          *)
C4_SetChangesOnlyWhatItNames ==
    [][(cur'.kind = "set" /\ cur'.name # Some(LAST_MARKED_KEY))
           => SetFrame(Record(store), Record(store'), cur')]_vars

(* C5: after clean_marks() from any store state, get_mark(no name) returns *)
(* the empty value, list_marks() is empty and get_mark(n) fails for every  *)
(* name n.                                                                 *)
C5_CleanResets ==
    cur.kind = "clean"
        => /\ hpoon_get_mark(Loaded, NoName) = Found(<<>>)
           /\ \A n \in Names : hpoon_get_mark(Loaded, Some(n)).res = "notfound"
           /\ \A order \in rangeOrders(Loaded.record.marks) :
                  /\ hpoon_list(Loaded, order).res = "ok"
                  /\ hpoon_list(Loaded, order).entries = <<>>
                  /\ hpoon_list(Loaded, order).out = <<>>

(* C5 witness: a clean has run on a store whose file held lines. *)
C5_Witness == cur.kind = "clean" /\ ~cur.fresh /\ store = NoFile

(* C6: get_mark(n) for a name n that no set_mark(_, n) has supplied since  *)
(* the store was last cleaned fails with mark-not-found and leaves the     *)
(* stored record unchanged.                                                *)
C6_MissingName ==
    [][(cur'.kind = "get" /\ cur'.name # NoName /\ cur'.name[1] \notin named)
           => /\ cur'.res = "notfound"
              /\ Record(store') = Record(store)]_vars

(* C10: list_marks() produces exactly the entries of the loaded record's   *)
(* named marks, each once, never the reserved-key entry; after             *)
(* set_mark(p, n) on a clean store the result is exactly {(n, p)} (n a     *)
(* name, hence not the reserved key).                                      *)
C10_ListMarks ==
    /\ cur.kind = "list"
           => /\ {cur.entries[i] : i \in DOMAIN cur.entries}
                     = {<<k, Loaded.record.marks[k]>> : k \in DOMAIN Loaded.record.marks}
              /\ Len(cur.entries) = Cardinality(DOMAIN Loaded.record.marks)
              /\ \A i \in DOMAIN cur.entries : cur.entries[i][1] # LAST_MARKED_KEY
    /\ (cur.kind = "set" /\ cur.fresh /\ cur.name # NoName
            /\ cur.name # Some(LAST_MARKED_KEY))
           => \A order \in rangeOrders(Loaded.record.marks) :
                  hpoon_list(Loaded, order).entries = << <<cur.name[1], cur.path>> >>

(***************************************************************************)
(* Claims about load (SpecLoad).                                           *)
(***************************************************************************)
FileLines == rawLines(store.bytes)

TextOf(k) == dropCR(FileLines[k])

WellFormed(k) == ~parse_hpoon_line(TextOf(k)).err

KeyOf(k) == parse_hpoon_line(TextOf(k)).key

ValueOf(k) == parse_hpoon_line(TextOf(k)).value

(* The last well-formed line with the key of line k is line k itself. *)
LastForKey(k) ==
    \A j \in DOMAIN FileLines : (j > k /\ WellFormed(j)) => KeyOf(j) # KeyOf(k)

(* The record holds what the well-formed lines give and nothing else: the  *)
(* malformed lines are skipped, and of several well-formed lines with one  *)
(* key the last one counts.                                                *)
YieldsWellFormed(record) ==
    /\ DOMAIN record.marks
           = {KeyOf(k) : k \in {j \in DOMAIN FileLines :
                                    WellFormed(j) /\ KeyOf(j) # LAST_MARKED_KEY}}
    /\ \A k \in DOMAIN FileLines :
           (WellFormed(k) /\ LastForKey(k))
               => IF KeyOf(k) = LAST_MARKED_KEY
                  THEN record.last_marked = ValueOf(k)
                  ELSE record.marks[KeyOf(k)] = ValueOf(k)
    /\ (\A k \in DOMAIN FileLines : WellFormed(k) => KeyOf(k) # LAST_MARKED_KEY)
           => record.last_marked = <<>>

C8_OnlyExistingPaths ==
    [][cur'.kind \in {"set", "nopath"}
           => IF cur'.existed
              THEN /\ exitCode(cur') = 0
                   /\ Record(store').last_marked = cur'.path
                   /\ cur'.name # NoName
                          => /\ cur'.name[1] \in DOMAIN Record(store').marks
                             /\ Record(store').marks[cur'.name[1]] = cur'.path
              ELSE /\ exitCode(cur') = 1
                   /\ Record(store') = Record(store)]_vars

(* C9: a mark whose path existed when it was set and has since been        *)
(* removed from the filesystem is still returned by get_mark, named and    *)
(* unnamed, with the original path.                                        *)
C9_StaleRetrieval ==
    (/\ cur.kind = "set"
     /\ cur.res = "ok"
     /\ cur.existed
     /\ Stat(fs, cur.path) = "ENOENT")
        => /\ hpoon_get_mark(Loaded, NoName) = Found(cur.path)
           /\ cur.name # NoName => hpoon_get_mark(Loaded, cur.name) = Found(cur.path)

(***************************************************************************)
(* Claims about save and load (SpecSave).                                  *)
(***************************************************************************)
(* The named marks of a record whose path is not empty. *)
NonEmptyMarks(marks) == [k \in {j \in DOMAIN marks : marks[j] # <<>>} |-> marks[k]]

(* One line per visited mark with a non-empty path, in the order visited. *)
RECURSIVE MarkLines(_, _, _)
MarkLines(marks, order, i) ==
    IF i > Len(order) THEN <<>>
    ELSE (IF marks[order[i]] = <<>> THEN <<>>
          ELSE << create_hpoon_line(order[i], marks[order[i]]) >>)
         \o MarkLines(marks, order, i + 1)

(* C11: for every record with a non-empty last_marked, save writes the     *)
(* reserved last-marked line first, then exactly one line per named mark   *)
(* with a non-empty path, and a following load returns the same            *)
(* last_marked and exactly those named marks with their paths unchanged.   *)
C11_SaveLoadRoundTrip ==
    (cur.kind = "save" /\ rd.record.last_marked # <<>>)
        => /\ rawLines(store.bytes)
                  = << create_hpoon_line(LAST_MARKED_KEY, rd.record.last_marked) >>
                        \o MarkLines(rd.record.marks, cur.entries, 1)
           /\ ~load_hpoon(store).quit
           /\ load_hpoon(store).record
                  = HarpoonRecord(rd.record.last_marked, NonEmptyMarks(rd.record.marks))

(* C12: a save of a record whose last_marked is empty leaves the store     *)
(* file empty, so that a following load yields the empty record, whatever  *)
(* named marks the record or the previous file held; set_mark("", n)       *)
(* leaves the store empty.                                                 *)
C12_DestructiveEmptySave ==
    /\ (cur.kind = "save" /\ rd.record.last_marked = <<>>)
           => /\ store = File(<<>>)
              /\ load_hpoon(store) = [quit |-> FALSE, record |-> EmptyRecord]
    /\ (cur.kind = "set" /\ cur.path = <<>>)
           => /\ store = File(<<>>)
              /\ load_hpoon(store) = [quit |-> FALSE, record |-> EmptyRecord]

(* C12 witness: a record with an empty last_marked and a named mark with a *)
(* path has been saved over a file that held marks.                        *)
C12_Witness ==
    /\ cur.kind = "save"
    /\ ~cur.fresh
    /\ rd.record.last_marked = <<>>
    /\ \E k \in DOMAIN rd.record.marks : rd.record.marks[k] # <<>>

(***************************************************************************)
(* Claims about concurrent invocations (SpecRace).                         *)
(***************************************************************************)
BothSetsDone == \A p \in Procs : procs[p].kind = "set" /\ procs[p].pc = "done"

BothLoadedFirst == \A p \in Procs : procs[p].early

SavesApart == \A p \in Procs : ~procs[p].overlapped

(* The store file holds exactly what the process that finished last wrote, *)
(* and neither process reported an error.                                  *)
LastWriterWins ==
    /\ \E p \in Procs : procs[p].last /\ store = File(procs[p].wrote)
    /\ \A p \in Procs : procs[p].res = "ok"

(* C13 as stated: two set_mark invocations that both load before either    *)
(* saves end with the store holding the record of whichever saved last,    *)
(* with no error reported to either.                                       *)
C13_LostUpdateAnySaves ==
    (BothSetsDone /\ BothLoadedFirst) => LastWriterWins

(* C13 amended: the same, when in addition the two saves do not overlap    *)
(* (one has written its last line before the other truncates the file).    *)
C13_LostUpdate ==
    (BothSetsDone /\ BothLoadedFirst /\ SavesApart) => LastWriterWins

(* C13 witness: both loaded first, the saves did not overlap, and the mark *)
(* that the first saver named is not in the store.                         *)
C13_Witness ==
    /\ BothSetsDone
    /\ BothLoadedFirst
    /\ SavesApart
    /\ \E p \in Procs :
           /\ ~procs[p].last
           /\ procs[p].name # NoName
           /\ procs[p].name[1] \notin DOMAIN Record(store).marks

(* C14: a get_mark or list_marks that loads while a set_mark is saving     *)
(* never fails fatally because of the partial file: its scan of the file   *)
(* never ends in an error.  (That it can miss the last-marked line and a   *)
(* name set before and after the save is the witness.)                     *)
C14_ReaderNeverFatal ==
    \A p \in Procs : procs[p].kind \in {"get", "list"} => procs[p].err # "scan"

(* C14 witness: get_mark("x") has failed with mark-not-found although the  *)
(* writer had loaded x before it saved and x is in the store after it has  *)
(* finished.                                                               *)
C14_Witness ==
    \E r \in Procs, w \in Procs :
        /\ procs[r].kind = "get"
        /\ procs[r].name # NoName
        /\ procs[r].pc = "done"
        /\ procs[r].res = "notfound"
        /\ procs[w].kind = "set"
        /\ procs[w].pc = "done"
        /\ procs[r].name[1] \in DOMAIN rd.record.marks
        /\ procs[r].name[1] \in DOMAIN procs[w].data.marks
        /\ procs[r].name[1] \in DOMAIN Record(store).marks

(* C15: when two set_mark invocations run concurrently, every named mark   *)
(* that was in the store before either began and whose name neither sets   *)
(* is in the store with the same path after both have finished.            *)
C15_RacingWritersKeepOtherMarks ==
    BothSetsDone
        => \A k \in DOMAIN rd.record.marks :
               (\A p \in Procs : procs[p].name # Some(k))
                   => /\ k \in DOMAIN Record(store).marks
                      /\ Record(store).marks[k] = rd.record.marks[k]

(* C16: no set_mark, get_mark or list_marks invocation ends with a fatal   *)
(* read error because the store file is missing, also when a clean_marks   *)
(* of another process runs concurrently.                                   *)
C16_NoFatalOnMissingFile ==
    \A p \in Procs : procs[p].err # "open"

(***************************************************************************)
(* Claims about the reserved key, duplicate keys and the read-only         *)
(* operations.                                                             *)
(***************************************************************************)
(* C17: no loaded record holds a named mark with the key "_"; after        *)
(* set_mark(p, "_") the stored record is the one set_mark(p, no name)      *)
(* would have left, get_mark(no name) returns p and get_mark("_") fails    *)
(* with mark-not-found.                                                    *)
C17_ReservedKeyCollision ==
    [][/\ LAST_MARKED_KEY \notin DOMAIN Record(store').marks
       /\ (cur'.kind = "set" /\ cur'.name = Some(LAST_MARKED_KEY))
              => /\ \A order \in rangeOrders(Record(store).marks) :
                        Record(store')
                            = Record(hpoon_set_mark(store, load_hpoon(store),
                                                    cur'.path, NoName, order))
                 /\ hpoon_get_mark(load_hpoon(store'), NoName) = Found(cur'.path)
                 /\ hpoon_get_mark(load_hpoon(store'), Some(LAST_MARKED_KEY)).res
                        = "notfound"]_vars

(* C18: when the store file holds several well-formed lines with one key   *)
(* (a name or the reserved key), the loaded record holds for that key the  *)
(* path of the last of them in file order.                                 *)
C18_LastDuplicateWins ==
    (rd.done /\ ~rd.quit)
        => \A k \in DOMAIN FileLines :
               (WellFormed(k) /\ LastForKey(k))
                   => IF KeyOf(k) = LAST_MARKED_KEY
                      THEN rd.record.last_marked = ValueOf(k)
                      ELSE /\ KeyOf(k) \in DOMAIN rd.record.marks
                           /\ rd.record.marks[KeyOf(k)] = ValueOf(k)

(* C18 witness: a file with two well-formed lines of one key and different *)
(* paths has been loaded.                                                  *)
C18_Witness ==
    /\ rd.done
    /\ ~rd.quit
    /\ \E j \in DOMAIN FileLines, k \in DOMAIN FileLines :
           /\ j < k
           /\ WellFormed(j)
           /\ WellFormed(k)
           /\ KeyOf(j) = KeyOf(k)
           /\ ValueOf(j) # ValueOf(k)

====
